---- MODULE Spec2Model ----
(***************************************************************************)
(* Model of PaymentRequestPlus (src/qt/paymentrequestplus.cpp): the BIP70  *)
(* payment request wrapper with parse, getMerchant and getPayTo.           *)
(*                                                                         *)
(* One PaymentRequestPlus object is modelled.  Its state is the protobuf   *)
(* envelope `paymentRequest` and the decoded `details`.  The remaining     *)
(* variables record the last call, its arguments and its observable        *)
(* outcome; gm.entry and gm.merchant are the caller's merchant string      *)
(* (the QString& of getMerchant) on entry and on return.                   *)
(***************************************************************************)
EXTENDS Integers, Sequences, FiniteSets, TLC

VARIABLES paymentRequest, details, lastOp, lastWire, lastParse,
          gm, payTo, validated, lastDecodable

vars == <<paymentRequest, details, lastOp, lastWire, lastParse,
          gm, payTo, validated, lastDecodable>>

(***************************************************************************)
(* Bounds of the model.                                                    *)
(***************************************************************************)
\* number of fields in which an input message may differ from BaseFields
MaxDeviations == 1

(***************************************************************************)
(* Certificates.  A certificate is what the code can observe of it: the    *)
(* subject and issuer names, the public key, the subject common name, the  *)
(* Qt view (validity window contains now, blacklisted) and whether         *)
(* d2i_X509 yields a handle.                                               *)
(***************************************************************************)
Cert(s, i, k, cn, w, b, d) ==
    [subject |-> s, issuer |-> i, key |-> k, cn |-> cn,
     inWindow |-> w, blacklisted |-> b, d2i |-> d]

\* the DER blobs that occur in bundles, named by their subject
cShop    == "shop"
cInter   == "inter"
cRoot    == "root"
cSelf    == "self"
cNoCN    == "nocn"
cDirect  == "direct"
cExpired == "old"
cBlack   == "revoked"
cBadDer  == "bad"

\* what decoding a DER blob yields
CertOf(der) ==
    CASE der = cShop    -> Cert("shop", "inter", "K1", "shop.example", TRUE, FALSE, TRUE)
      [] der = cInter   -> Cert("inter", "root", "K2", "Inter CA", TRUE, FALSE, TRUE)
      [] der = cRoot    -> Cert("root", "root", "K3", "Root CA", TRUE, FALSE, TRUE)
      [] der = cSelf    -> Cert("self", "self", "K4", "self.example", TRUE, FALSE, TRUE)
      [] der = cNoCN    -> Cert("nocn", "root", "K5", "", TRUE, FALSE, TRUE)
      [] der = cDirect  -> Cert("direct", "root", "K6", "direct.example", TRUE, FALSE, TRUE)
      [] der = cExpired -> Cert("old", "root", "K7", "old.example", FALSE, FALSE, TRUE)
      [] der = cBlack   -> Cert("revoked", "root", "K8", "revoked.example", TRUE, TRUE, TRUE)
      [] OTHER          -> Cert("bad", "bad", "K9", "", TRUE, FALSE, FALSE)

\* pki_data payloads: a decodable X509Certificates bundle, or bytes that
\* X509Certificates::ParseFromString rejects
Bundle(cs) == [ok |-> TRUE, certs |-> cs]
GarbageBundle == [ok |-> FALSE, certs |-> <<>>]
EmptyBundle == Bundle(<<>>)
BaseBundle == Bundle(<<cShop, cInter>>)

Bundles ==
    { BaseBundle, EmptyBundle, GarbageBundle,
      Bundle(<<cShop>>),
      Bundle(<<cShop, cInter, cRoot>>),
      Bundle(<<cDirect, cRoot>>),
      Bundle(<<cSelf>>),
      Bundle(<<cNoCN>>),
      Bundle(<<cShop, cInter, cExpired>>),
      Bundle(<<cShop, cExpired, cInter>>),
      Bundle(<<cExpired, cInter>>),
      Bundle(<<cShop, cInter, cBlack>>),
      Bundle(<<cBadDer>>),
      Bundle(<<cBadDer, cShop, cInter>>) }

\* trust stores handed to getMerchant: the set of trusted root subjects
Stores == { {}, {"root"} }

(***************************************************************************)
(* Payment details payloads (serialized_payment_details).                  *)
(***************************************************************************)
Output(s, a) == [script |-> s, amount |-> a]

\* what PaymentDetails::ParseFromString makes of a payload: whether it
\* succeeds and the outputs the message holds afterwards (a failed parse
\* leaves the outputs decoded before the failure)
DetailsPayload(spd) ==
    CASE spd = "D0"   -> [ok |-> TRUE,  outputs |-> <<>>]
      [] spd = "D1"   -> [ok |-> TRUE,  outputs |-> <<Output("s1", 5)>>]
      [] spd = "D2"   -> [ok |-> TRUE,  outputs |-> <<Output("s1", 5), Output("s2", 7)>>]
      [] spd = "DBad" -> [ok |-> FALSE, outputs |-> <<Output("s3", 9)>>]
      [] OTHER        -> [ok |-> TRUE,  outputs |-> <<>>]

Payloads == {"absent", "D0", "D1", "D2", "DBad"}

(***************************************************************************)
(* The envelope (payments::PaymentRequest) and its signature.              *)
(***************************************************************************)
\* an empty signature field
NoSig == [key |-> "none", dg |-> "none", msg |-> {}]

\* a signature made with private key k and digest dg over the bytes of m
Sign(k, dg, m) == [key |-> k, dg |-> dg, msg |-> {m}]

Envelope(v, t, pd, spd, sig) ==
    [version |-> v, pki_type |-> t, pki_data |-> pd, spd |-> spd, signature |-> sig]

\* a default-constructed / Clear()ed message: protobuf field defaults, the
\* required serialized_payment_details unset
ClearedRequest == Envelope(1, "none", EmptyBundle, "absent", NoSig)

\* PaymentRequest::SerializeToString: the bytes are determined by all fields
Serialize(env) ==
    <<env.version, env.pki_type, env.pki_data, env.spd, env.signature>>

\* rcopy.set_signature("")
SetSignatureEmpty(env) == [env EXCEPT !.signature = NoSig]

\* EVP_VerifyInit_ex / EVP_VerifyUpdate / EVP_VerifyFinal
EVP_Verify(sig, key, dg, data) ==
    /\ sig.key = key
    /\ sig.dg = dg
    /\ sig.msg = {data}

(***************************************************************************)
(* Input messages handed to parse.  A wire message carries the fields of   *)
(* an envelope; wireOK tells whether the bytes are well-formed protobuf,   *)
(* and goodFields how many of the five fields (in field-number order) the  *)
(* decoder reads before it meets the malformed part.                       *)
(***************************************************************************)
Versions == {1, 2}
PkiTypes == {"x509+sha256", "x509+sha1", "none", "x509+md5"}
SigKinds == {"valid", "empty", "wrongkey", "wrongdigest", "tampered"}
Damage   == {"ok", "tail", "mid"}

\* the digest a signer of scheme t uses
SignerDigest(t) == IF t = "x509+sha1" THEN "sha1" ELSE "sha256"
OtherDigest(d) == IF d = "sha1" THEN "sha256" ELSE "sha1"

RECURSIVE FirstUsableKey(_)
FirstUsableKey(cs) ==
    IF cs = <<>> THEN "K1"
    ELSE IF CertOf(Head(cs)).d2i THEN CertOf(Head(cs)).key
         ELSE FirstUsableKey(Tail(cs))

\* the envelope a merchant (or an attacker) builds: kind tells how the
\* signature relates to the other fields
MkEnvelope(v, t, pd, spd, kind) ==
    LET unsigned == Envelope(v, t, pd, spd, NoSig)
        other    == Envelope(v, t, pd, IF spd = "D2" THEN "D1" ELSE "D2", NoSig)
        k        == FirstUsableKey(pd.certs)
        d        == SignerDigest(t)
        sig      == CASE kind = "valid"       -> Sign(k, d, Serialize(unsigned))
                      [] kind = "wrongkey"    -> Sign("Kx", d, Serialize(unsigned))
                      [] kind = "wrongdigest" -> Sign(k, OtherDigest(d), Serialize(unsigned))
                      [] kind = "tampered"    -> Sign(k, d, Serialize(other))
                      [] OTHER                -> NoSig
    IN  [unsigned EXCEPT !.signature = sig]

BaseFields == <<1, "x509+sha256", BaseBundle, "D1", "valid", "ok">>

FieldTuples == Versions \X PkiTypes \X Bundles \X Payloads \X SigKinds \X Damage

Deviations(f) == Cardinality({i \in 1..6 : f[i] # BaseFields[i]})

MkWire(f) ==
    [env        |-> MkEnvelope(f[1], f[2], f[3], f[4], f[5]),
     wireOK     |-> f[6] = "ok",
     goodFields |-> IF f[6] = "mid" THEN 3 ELSE 5]

Wires == { MkWire(f) : f \in {g \in FieldTuples : Deviations(g) <= MaxDeviations} }

(***************************************************************************)
(* parse                                                                   *)
(***************************************************************************)
\* PaymentRequest::IsInitialized: the required field
\* serialized_payment_details is set
IsInitialized(pr) == pr.spd # "absent"

\* PaymentRequest::ParseFromArray: the message is cleared, the fields read
\* before any malformed part are kept, and the call succeeds iff the bytes
\* are well-formed and the required field is present
ParseFromArray(w) ==
    LET e   == w.env
        n   == w.goodFields
        c   == ClearedRequest
        msg == Envelope(IF n >= 1 THEN e.version   ELSE c.version,
                        IF n >= 2 THEN e.pki_type  ELSE c.pki_type,
                        IF n >= 3 THEN e.pki_data  ELSE c.pki_data,
                        IF n >= 4 THEN e.spd       ELSE c.spd,
                        IF n >= 5 THEN e.signature ELSE c.signature)
    IN  [ok |-> w.wireOK /\ IsInitialized(msg), msg |-> msg]

\* payment_details_version() > 1 is rejected
VersionTooHighOffByOne(v) == v > 2
VersionTooHigh(v) == v > 1

\* PaymentRequestPlus::parse: the return value and the object's fields after
ParseResult(pr, det, w) ==
    LET outer == ParseFromArray(w)
    IN  IF ~outer.ok
        THEN [ret |-> FALSE, pr |-> outer.msg, details |-> det]
        ELSE IF VersionTooHigh(outer.msg.version)
        THEN [ret |-> FALSE, pr |-> outer.msg, details |-> det]
        ELSE LET inner == DetailsPayload(outer.msg.spd)
             IN  IF ~inner.ok
                 THEN [ret |-> FALSE, pr |-> ClearedRequest,
                       details |-> [outputs |-> inner.outputs]]
                 ELSE [ret |-> TRUE, pr |-> outer.msg,
                       details |-> [outputs |-> inner.outputs]]

(***************************************************************************)
(* getMerchant                                                             *)
(***************************************************************************)
\* native resources a call acquires
HX509(i)  == <<"X509", i>>
HStack    == <<"STACK_OF_X509", 0>>
HStoreCtx == <<"X509_STORE_CTX", 0>>
HMdCtx    == <<"EVP_MD_CTX", 0>>
HPubKey   == <<"EVP_PKEY", 0>>
HWebsite  == <<"website", 0>>

\* values the caller's merchant string may hold when the call is entered
MerchantEntries == {"", "stale"}

\* allocation / initialisation failures the environment may produce
Failures == {"none", "ctx_new", "ctx_init", "md_ctx"}

\* X509_verify_cert error codes
X509_V_OK == 0
X509_V_ERR_CERT_HAS_EXPIRED == 10
X509_V_ERR_DEPTH_ZERO_SELF_SIGNED_CERT == 18
X509_V_ERR_SELF_SIGNED_CERT_IN_CHAIN == 19
X509_V_ERR_UNABLE_TO_GET_ISSUER_CERT_LOCALLY == 20

\* merchant.clear()
MerchantKept(m) == m
MerchantClear(m) == ""

\* the pki_type dispatch: the schemes for which a digest is selected
RecognizedOrNone(t) == t \in {"x509+sha256", "x509+sha1", "none"}
RecognizedPkiType(t) == t \in {"x509+sha256", "x509+sha1"}

\* EVP_sha256() / EVP_sha1()
DigestIgnoresPkiType(t) == "sha1"
DigestAlgorithm(t) == IF t = "x509+sha256" THEN "sha256" ELSE "sha1"

\* the per-certificate checks of the loading loop
CertDateNotChecked(c) == FALSE
CertOutsideWindow(c) == ~c.inWindow
CertBlacklisted(c) == c.blacklisted

\* the loading loop over certChain.certificate(i): stops at the first
\* certificate that is outside its window or blacklisted; otherwise pushes
\* the handle when d2i_X509 yields one.  loaded holds the bundle positions
\* of the handles in certs.
RECURSIVE LoadCerts(_, _, _)
LoadCerts(bundle, i, loaded) ==
    IF i > Len(bundle) THEN [rejected |-> FALSE, loaded |-> loaded]
    ELSE IF CertOutsideWindow(CertOf(bundle[i])) \/ CertBlacklisted(CertOf(bundle[i]))
         THEN [rejected |-> TRUE, loaded |-> loaded]
         ELSE LoadCerts(bundle, i + 1,
                        IF CertOf(bundle[i]).d2i THEN Append(loaded, i) ELSE loaded)

HandlesOf(loaded) == { HX509(loaded[j]) : j \in 1..Len(loaded) }

\* X509_verify_cert: build the path from x through the untrusted
\* certificates towards a trusted root; the error code of the result
RECURSIVE BuildPath(_, _, _, _)
BuildPath(x, untrusted, store, depth) ==
    IF ~x.inWindow THEN X509_V_ERR_CERT_HAS_EXPIRED
    ELSE IF x.issuer = x.subject
    THEN IF x.subject \in store THEN X509_V_OK
         ELSE IF depth = 0 THEN X509_V_ERR_DEPTH_ZERO_SELF_SIGNED_CERT
         ELSE X509_V_ERR_SELF_SIGNED_CERT_IN_CHAIN
    ELSE IF x.issuer \in store THEN X509_V_OK
    ELSE IF depth < Cardinality(untrusted)
            /\ \E c \in untrusted : c.subject = x.issuer
    THEN BuildPath(CHOOSE c \in untrusted : c.subject = x.issuer,
                   untrusted, store, depth + 1)
    ELSE X509_V_ERR_UNABLE_TO_GET_ISSUER_CERT_LOCALLY

X509_verify_cert(signing_cert, chain, store) ==
    BuildPath(signing_cert, chain, store, 0)

\* the test on the result of X509_verify_cert: whether validation goes on
ChainAcceptedAlways(error, allowSelfSigned) == TRUE
ChainAccepted(error, allowSelfSigned) ==
    \/ error = X509_V_OK
    \/ error = X509_V_ERR_DEPTH_ZERO_SELF_SIGNED_CERT /\ allowSelfSigned

\* data_to_verify: the serialization of the copy with the signature cleared
DataToVerify(pr) == Serialize(SetSignatureEmpty(pr))

\* the outcome of one call: return value, merchant on return, the stages
\* attempted in order, the handles still live at return, and the values the
\* call computed on its way
Outcome(ret, m, stages, live, nLoaded, verr) ==
    [ret |-> ret, merchant |-> m, stages |-> stages, live |-> live,
     nLoaded |-> nLoaded, verr |-> verr]

\* the try block: everything from X509_STORE_CTX_init to the common name,
\* followed by the cleanup after the catch
ValidateAndVerify(pr, certs, loaded, store, allowSelfSigned, fail, m0, pre) ==
    LET signing_cert == certs[1]
        chain == { certs[j] : j \in 2..Len(certs) }
        n     == Len(certs)
        \* live after delete[] website, X509_STORE_CTX_free and the X509_free loop
        cleanup(acquired) == (acquired \ {HWebsite, HStoreCtx}) \ HandlesOf(loaded)
        held  == HandlesOf(loaded) \cup {HStack, HStoreCtx}
        verr  == X509_verify_cert(signing_cert, chain, store)
        s1    == pre \o <<"ctx_init">>
        s2    == s1 \o <<"verify_cert">>
        s2b   == s2 \o <<"md_ctx">>
        s3    == s2b \o <<"verify_sig">>
        s4    == s3 \o <<"read_cn">>
    IN  IF fail = "ctx_init"
        THEN Outcome(FALSE, m0, s1, cleanup(held), n, -1)
        ELSE IF ~ChainAccepted(verr, allowSelfSigned)
        THEN Outcome(FALSE, m0, s2, cleanup(held), n, verr)
        ELSE IF fail = "md_ctx"
        THEN Outcome(FALSE, m0, s2b, cleanup(held), n, verr)
        ELSE IF ~EVP_Verify(pr.signature, signing_cert.key,
                            DigestAlgorithm(pr.pki_type), DataToVerify(pr))
        \* EVP_MD_CTX_destroy(ctx) before the throw
        THEN Outcome(FALSE, m0, s3, cleanup(held \cup {HPubKey}), n, verr)
        ELSE IF signing_cert.cn = ""
        THEN Outcome(FALSE, m0, s4, cleanup(held \cup {HPubKey, HWebsite}), n, verr)
        ELSE Outcome(TRUE, signing_cert.cn, s4,
                     cleanup(held \cup {HPubKey, HWebsite}), n, verr)

\* PaymentRequestPlus::getMerchant
GetMerchantResult(pr, store, allowSelfSigned, fail, merchantIn) ==
    LET m0 == MerchantClear(merchantIn)
    IN  IF ~IsInitialized(pr)
        THEN Outcome(FALSE, m0, <<>>, {}, 0, -1)
        ELSE IF ~RecognizedPkiType(pr.pki_type)
        THEN Outcome(FALSE, m0, <<"pki_type">>, {}, 0, -1)
        ELSE IF ~pr.pki_data.ok
        THEN Outcome(FALSE, m0, <<"pki_type", "decode_pki_data">>, {}, 0, -1)
        ELSE LET bundle == pr.pki_data.certs
                 ld     == LoadCerts(bundle, 1, <<>>)
                 certs  == [j \in 1..Len(ld.loaded) |-> CertOf(bundle[ld.loaded[j]])]
                 pre    == <<"pki_type", "decode_pki_data", "load_certs">>
             IN  IF ld.rejected
                 THEN Outcome(FALSE, m0, pre, HandlesOf(ld.loaded), Len(ld.loaded), -1)
                 ELSE IF ld.loaded = <<>>
                 THEN Outcome(FALSE, m0, pre, {}, 0, -1)
                 ELSE IF fail = "ctx_new"
                 THEN Outcome(FALSE, m0, pre \o <<"ctx_new">>,
                              HandlesOf(ld.loaded) \cup {HStack}, Len(ld.loaded), -1)
                 ELSE ValidateAndVerify(pr, certs, ld.loaded, store, allowSelfSigned,
                                        fail, m0, pre \o <<"ctx_new">>)

(***************************************************************************)
(* getPayTo                                                                *)
(***************************************************************************)
\* the loop stopping one output short
GetPayToDropsLast(det) ==
    [i \in 1..(Len(det.outputs) - 1) |-> <<det.outputs[i].script, det.outputs[i].amount>>]

\* the QList of std::pair<CScript, CAmount> built from details.outputs
GetPayToResult(det) ==
    [i \in 1..Len(det.outputs) |-> <<det.outputs[i].script, det.outputs[i].amount>>]

(***************************************************************************)
(* The state machine: one object, called by one thread.                    *)
(***************************************************************************)
\* what is recorded of the last message handed to parse
WireInfo(w) ==
    [version |-> w.env.version, spd |-> w.env.spd,
     wireOK |-> w.wireOK, goodFields |-> w.goodFields]

NoWire == [version |-> 1, spd |-> "absent", wireOK |-> FALSE, goodFields |-> 0]

NoCall ==
    [ret |-> FALSE, merchant |-> "", stages |-> <<>>, live |-> {},
     nLoaded |-> 0, verr |-> -1,
     store |-> {}, allowSelfSigned |-> FALSE, entry |-> ""]

\* whether the outer decode and the version check let a message through to
\* the decoding of its payment details
Decodable(w) ==
    /\ w.wireOK
    /\ w.env.spd # "absent"
    /\ w.env.version <= 1

Init ==
    /\ paymentRequest = ClearedRequest
    /\ details = [outputs |-> <<>>]
    /\ lastOp = "none"
    /\ lastWire = NoWire
    /\ lastParse = "none"
    /\ gm = NoCall
    /\ payTo = <<>>
    /\ validated = FALSE
    /\ lastDecodable = "absent"

\* bool parse(const QByteArray& data)
Parse ==
    \E w \in Wires :
        LET r == ParseResult(paymentRequest, details, w)
        IN  /\ paymentRequest' = r.pr
            /\ details' = r.details
            /\ lastOp' = "parse"
            /\ lastWire' = WireInfo(w)
            /\ lastParse' = IF r.ret THEN "ok" ELSE "failed"
            /\ gm' = NoCall
            /\ payTo' = <<>>
            /\ validated' = FALSE
            /\ lastDecodable' = IF Decodable(w) THEN w.env.spd ELSE lastDecodable

\* bool getMerchant(X509_STORE* certStore, QString& merchant) const
GetMerchant ==
    \E store \in Stores, allow \in BOOLEAN, fail \in Failures, entry \in MerchantEntries :
        LET r == GetMerchantResult(paymentRequest, store, allow, fail, entry)
        IN  /\ gm' = r @@ [store |-> store, allowSelfSigned |-> allow, entry |-> entry]
            /\ lastOp' = "getMerchant"
            /\ validated' = (validated \/ r.ret)
            /\ payTo' = <<>>
            /\ UNCHANGED <<paymentRequest, details, lastWire, lastParse, lastDecodable>>

\* QList<std::pair<CScript,CAmount> > getPayTo() const
GetPayTo ==
    /\ payTo' = GetPayToResult(details)
    /\ lastOp' = "getPayTo"
    /\ gm' = NoCall
    /\ UNCHANGED <<paymentRequest, details, lastWire, lastParse,
                   validated, lastDecodable>>

Next == Parse \/ GetMerchant \/ GetPayTo

Spec == Init /\ [][Next]_vars

(***************************************************************************)
(* Vocabulary of the properties.                                           *)
(***************************************************************************)
Range(q) == { q[i] : i \in 1..Len(q) }

Attempted(stage) == stage \in Range(gm.stages)

StageOrder ==
    <<"pki_type", "decode_pki_data", "load_certs", "ctx_new", "ctx_init",
      "verify_cert", "md_ctx", "verify_sig", "read_cn">>

JustCalledGetMerchant == lastOp = "getMerchant"

\* the certificates of the stored envelope's bundle, decoded
BundleCerts ==
    [i \in 1..Len(paymentRequest.pki_data.certs) |->
        CertOf(paymentRequest.pki_data.certs[i])]

UsableCerts == SelectSeq(BundleCerts, LAMBDA c : c.d2i)

\* the stored envelope's signature is a signature by the leaf key, with the
\* digest its pki_type names, over the envelope with the signature emptied
SignatureGenuine ==
    /\ UsableCerts # <<>>
    /\ paymentRequest.signature.key = UsableCerts[1].key
    /\ paymentRequest.signature.dg = SignerDigest(paymentRequest.pki_type)
    /\ paymentRequest.signature.msg =
          { Serialize([paymentRequest EXCEPT !.signature = NoSig]) }

\* following issuers from the leaf through the bundle, the path ends in a
\* self-signed certificate outside the store without meeting a trusted issuer
RECURSIVE EndsInUntrustedSelfSigned(_, _, _, _)
EndsInUntrustedSelfSigned(x, others, store, fuel) ==
    IF x.issuer = x.subject THEN x.subject \notin store
    ELSE IF x.issuer \in store \/ fuel = 0 THEN FALSE
    ELSE IF \E c \in others : c.subject = x.issuer
         THEN EndsInUntrustedSelfSigned(CHOOSE c \in others : c.subject = x.issuer,
                                        others, store, fuel - 1)
         ELSE FALSE

SelfSignedRootCase ==
    /\ UsableCerts # <<>>
    /\ EndsInUntrustedSelfSigned(UsableCerts[1], Range(Tail(UsableCerts)),
                                 gm.store, Len(UsableCerts))

(***************************************************************************)
(* C1.  Whenever getMerchant returns false, the merchant string is empty   *)
(* on return, whatever it held on entry; it is non-empty only when         *)
(* getMerchant returns true.                                               *)
(***************************************************************************)
C1_MerchantEmptyOnFailure ==
    JustCalledGetMerchant => (~gm.ret => gm.merchant = "")

\* a call entered with a stale merchant string that fails as late as the
\* signature check
C1_Witness ==
    /\ JustCalledGetMerchant
    /\ gm.entry = "stale"
    /\ ~gm.ret
    /\ Attempted("verify_sig")
    /\ gm.merchant = ""

C3_SelfSignedRootCarveOut ==
    (JustCalledGetMerchant /\ Attempted("verify_cert")) =>
        /\ (SelfSignedRootCase /\ ~gm.allowSelfSigned) => ~gm.ret
        /\ (SelfSignedRootCase /\ gm.allowSelfSigned) => Attempted("md_ctx")
        /\ (~SelfSignedRootCase /\ gm.verr # X509_V_OK) => ~gm.ret

(***************************************************************************)
(* C4.  Every resource a getMerchant call acquires is released before the  *)
(* call returns, on every exit path: at return no handle acquired by the   *)
(* call is live.                                                           *)
(***************************************************************************)
C4_NoLiveHandlesAtReturn ==
    JustCalledGetMerchant => gm.live = {}

(***************************************************************************)
(* C5.  The stages of a getMerchant call run in the fixed order and none   *)
(* is skipped; the signature is checked only after a non-empty chain was   *)
(* loaded and chain validation accepted it or the carve-out applied; the   *)
(* common name is read only after the signature verified; an envelope      *)
(* whose pki_data yields no usable certificate fails without chain         *)
(* validation or signature verification being attempted.                   *)
(***************************************************************************)
C5_StagesInOrder ==
    JustCalledGetMerchant =>
        /\ Len(gm.stages) <= Len(StageOrder)
        /\ gm.stages = SubSeq(StageOrder, 1, Len(gm.stages))
        /\ Attempted("verify_sig") =>
              /\ UsableCerts # <<>>
              /\ \/ gm.verr = X509_V_OK
                 \/ gm.verr = X509_V_ERR_DEPTH_ZERO_SELF_SIGNED_CERT
                    /\ gm.allowSelfSigned
        /\ Attempted("read_cn") => SignatureGenuine
        /\ gm.merchant # "" => Attempted("read_cn")
        /\ UsableCerts = <<>> =>
              /\ ~gm.ret
              /\ ~Attempted("verify_cert")
              /\ ~Attempted("verify_sig")

\* a bundle that decodes but yields no handle: the call stops after loading
C5_Witness ==
    /\ JustCalledGetMerchant
    /\ paymentRequest.pki_data = Bundle(<<cBadDer>>)
    /\ gm.stages = <<"pki_type", "decode_pki_data", "load_certs">>
    /\ ~gm.ret

(***************************************************************************)
(* C6.  For every envelope whose payment_details_version is greater than   *)
(* 1, parse returns false and the details held by the object are not       *)
(* touched.                                                                *)
(***************************************************************************)
C6_UpVersionNotParsed ==
    [][(lastOp' = "parse" /\ lastWire'.version > 1) =>
          (lastParse' = "failed" /\ details' = details)]_vars

\* a well-formed version 2 envelope carrying payload D1 was refused while
\* the object still holds the outputs of an earlier message
C6_Witness ==
    /\ lastOp = "parse"
    /\ lastWire = [version |-> 2, spd |-> "D1", wireOK |-> TRUE, goodFields |-> 5]
    /\ lastParse = "failed"
    /\ details.outputs = DetailsPayload("DBad").outputs

(***************************************************************************)
(* C7.  If any certificate of the bundle, at any position, has a validity  *)
(* window that excludes the current time, getMerchant returns false.       *)
(***************************************************************************)
C7_ExpiredAnywhereFails ==
    (JustCalledGetMerchant /\ \E c \in Range(BundleCerts) : ~c.inWindow) => ~gm.ret

\* the expired certificate is the last of three and takes no part in the
\* path, the store trusts the root and the signature is genuine
C7_Witness ==
    /\ JustCalledGetMerchant
    /\ paymentRequest.pki_data = Bundle(<<cShop, cInter, cExpired>>)
    /\ gm.store = {"root"}
    /\ SignatureGenuine
    /\ Attempted("load_certs")
    /\ ~gm.ret

(***************************************************************************)
(* C8.  For every pki_type other than x509+sha256 and x509+sha1,           *)
(* including none, getMerchant returns false before pki_data is decoded    *)
(* and before any certificate, chain or signature check.                   *)
(***************************************************************************)
C8_UnrecognizedPkiTypeFailsEarly ==
    (JustCalledGetMerchant
        /\ paymentRequest.pki_type \notin {"x509+sha256", "x509+sha1"}) =>
        /\ ~gm.ret
        /\ Range(gm.stages) \subseteq {"pki_type"}

\* an initialized envelope of type none with a decodable bundle
C8_Witness ==
    /\ JustCalledGetMerchant
    /\ paymentRequest.pki_type = "none"
    /\ paymentRequest.pki_data = BaseBundle
    /\ gm.stages = <<"pki_type">>
    /\ ~gm.ret

C10_FailedParseBlocksValidation ==
    (JustCalledGetMerchant /\ lastParse = "failed") => ~gm.ret

====
